---------------------------- MODULE Spec2Model ----------------------------
(***************************************************************************)
(* Ingestion orchestration (db_insertion/auto_loader.py) and the dataset   *)
(* cache (db_insertion/dataset_cache.py).                                  *)
(*                                                                         *)
(* Three specifications share this module:                                 *)
(*   SpecFilter  filter_best_files / extract_cycle as pure functions       *)
(*   SpecCache   DatasetCache called from several threads                  *)
(*   SpecLoader  successive runs of auto_loader for one float              *)
(***************************************************************************)
EXTENDS Integers, Sequences, FiniteSets, TLC

VARIABLES
    \* ---- SpecFilter
    files,          \* the list handed to filter_best_files
    result,         \* its return value (NotCalled before the call)
    \* ---- SpecCache
    cache,          \* self._cache: OrderedDict as a sequence, head = front
    cacheSize,      \* self._cache_size
    negCache,       \* self._neg_cache: url -> timestamp or NoEntry
    disk,           \* urls whose file is staged in data_dir
    clock,          \* time.time()
    pc,             \* per thread: position in ensure_file / get_dataset
    call,           \* per thread: locals of the call in progress
    useOrder,       \* history: cached urls by recency of use, most recent first
    \* ---- SpecLoader
    listing,        \* filenames the archive lists for the float
    content,        \* per listed file: what the parsers find in it
    profiles,       \* committed rows of table profiles (cycle numbers)
    floats,         \* committed rows of table floats (cycle numbers)
    measurements,   \* committed rows of table measurements: cycle -> count
    staged,         \* files already in dummy/data/<float_id>/
    run,            \* locals of the auto_loader run in progress
    units,          \* per submitted file: state of its process_single_file
    hist,           \* what earlier runs submitted and committed (history)
    floatRows,      \* rows of table floats, column by column
    lastInsert,     \* the last call of insert_float_metadata (history)
    lockOwner,      \* the thread that holds DatasetCache._lock, or "free"
    at,             \* per thread: the line of DatasetCache it is at
    written,        \* per url: how much of its staged file is on disk
    cachedUrls,     \* the urls that have an entry in _cache
    negUrls         \* the urls that have a fresh entry in _neg_cache

filterVars == <<files, result>>
cacheVars  == <<cache, cacheSize, negCache, disk, clock, pc, call, useOrder>>
loaderVars == <<listing, content, profiles, floats, measurements, staged, run, units, hist>>
upsertVars == <<floatRows, lastInsert>>
lockVars == <<lockOwner, at, written, cachedUrls, negUrls>>
vars == <<files, result, cache, cacheSize, negCache, disk, clock,
          pc, call, useOrder, listing, content, profiles, floats, measurements, staged,
          run, units, hist, floatRows, lastInsert,
          lockOwner, at, written, cachedUrls, negUrls>>

-----------------------------------------------------------------------------
(* Strings are sequences of one-character strings, so that split, replace, *)
(* startswith, the regular expression and the lexical order are computed.  *)

NC == <<".", "n", "c">>

Digits == {"0", "1", "2", "3", "4", "5", "6", "7", "8", "9"}

\* str.isdigit for the characters that occur
IsDigit(c) == c \in Digits

\* ord(c) for the characters that occur
Ord(c) ==
    CASE c = "." -> 46 [] c = "/" -> 47
      [] c = "0" -> 48 [] c = "1" -> 49 [] c = "2" -> 50 [] c = "3" -> 51
      [] c = "4" -> 52 [] c = "5" -> 53 [] c = "6" -> 54 [] c = "7" -> 55
      [] c = "8" -> 56 [] c = "9" -> 57
      [] c = "B" -> 66 [] c = "D" -> 68 [] c = "R" -> 82 [] c = "S" -> 83
      [] c = "X" -> 88 [] c = "_" -> 95 [] c = "c" -> 99 [] c = "n" -> 110

DigitVal(c) == Ord(c) - 48

\* s.startswith(p)
StartsWith(s, p) == Len(s) >= Len(p) /\ SubSeq(s, 1, Len(p)) = p

\* s[i:] with a 1-based i
Tail_(s, i) == SubSeq(s, i, Len(s))

\* positions of character c in s
Positions(s, c) == {i \in 1..Len(s) : s[i] = c}

SetMax(S) == CHOOSE x \in S : \A y \in S : y <= x
SetMin(S) == CHOOSE x \in S : \A y \in S : x <= y

\* s.split(sep)[-1]: what follows the last separator (all of s without one)
LastPart(s, sep) ==
    IF Positions(s, sep) = {} THEN s
    ELSE Tail_(s, SetMax(Positions(s, sep)) + 1)

\* len(s.split(sep))
NumParts(s, sep) == Cardinality(Positions(s, sep)) + 1

\* os.path.basename
Basename(s) == LastPart(s, "/")

\* s.replace(p, ""): left to right, non-overlapping
RECURSIVE Remove(_, _)
Remove(s, p) ==
    IF s = <<>> THEN <<>>
    ELSE IF StartsWith(s, p) THEN Remove(Tail_(s, Len(p) + 1), p)
    ELSE <<Head(s)>> \o Remove(Tail(s), p)

\* int(s) for a non-empty string of digits
RECURSIVE ToInt(_)
ToInt(s) ==
    IF s = <<>> THEN 0
    ELSE 10 * ToInt(SubSeq(s, 1, Len(s) - 1)) + DigitVal(s[Len(s)])

\* a < b for str
RECURSIVE StrLess(_, _)
StrLess(a, b) ==
    IF b = <<>> THEN FALSE
    ELSE IF a = <<>> THEN TRUE
    ELSE IF Ord(Head(a)) # Ord(Head(b)) THEN Ord(Head(a)) < Ord(Head(b))
    ELSE StrLess(Tail(a), Tail(b))

\* sorted(list of str)
RECURSIVE InsertSorted(_, _)
InsertSorted(x, s) ==
    IF s = <<>> THEN <<x>>
    ELSE IF StrLess(Head(s), x) \/ Head(s) = x
         THEN <<Head(s)>> \o InsertSorted(x, Tail(s))
         ELSE <<x>> \o s

RECURSIVE Sorted(_)
Sorted(s) == IF s = <<>> THEN <<>> ELSE InsertSorted(Head(s), Sorted(Tail(s)))

Range(s) == {s[i] : i \in 1..Len(s)}

-----------------------------------------------------------------------------
(* auto_loader.py: extract_cycle and filter_best_files                     *)

\* Python's None where a cycle number is expected
None == -1

\* extract_cycle: re.findall(r"_(\d+)\.nc", filename), first match or None
DigitRunEnd(s, i) ==
    \* last index of the longest run of digits starting at i (i - 1 if none)
    IF \E j \in i..Len(s) : ~IsDigit(s[j])
    THEN SetMin({j \in i..Len(s) : ~IsDigit(s[j])}) - 1
    ELSE Len(s)

MatchAt(s, i) ==
    \* "_", one or more digits, ".nc" starting at i (backtracking cannot
    \* help: the digits must be followed by ".", which is not a digit)
    /\ s[i] = "_"
    /\ DigitRunEnd(s, i + 1) >= i + 1
    /\ StartsWith(Tail_(s, DigitRunEnd(s, i + 1) + 1), NC)

extract_cycle(filename) ==
    LET hits == {i \in 1..Len(filename) : MatchAt(filename, i)}
    IN  IF hits = {} THEN None
        ELSE LET i == SetMin(hits)
             IN  ToInt(SubSeq(filename, i + 1, DigitRunEnd(filename, i + 1)))

\* the cycle key filter_best_files groups a file under, or None when the
\* file is skipped (lines 151-161)
FilterCycle(f) ==
    IF NumParts(f, "_") < 2 THEN None
    ELSE LET cycle_part == Remove(LastPart(f, "_"), NC)
             cycle_str  == SelectSeq(cycle_part, IsDigit)
         IN  IF cycle_str = <<>> THEN None ELSE ToInt(cycle_str)

\* as get_score, with the scores of D and R exchanged
get_score_DR(fname) ==
    LET base == Basename(fname)
    IN  IF StartsWith(base, <<"S", "D">>) THEN 6
        ELSE IF StartsWith(base, <<"S", "R">>) THEN 5
        ELSE IF StartsWith(base, <<"B", "D">>) THEN 4
        ELSE IF StartsWith(base, <<"B", "R">>) THEN 3
        ELSE IF StartsWith(base, <<"D">>) THEN 1
        ELSE IF StartsWith(base, <<"R">>) THEN 2
        ELSE 0

\* get_score (lines 173-181)
get_score(fname) ==
    LET base == Basename(fname)
    IN  IF StartsWith(base, <<"S", "D">>) THEN 6
        ELSE IF StartsWith(base, <<"S", "R">>) THEN 5
        ELSE IF StartsWith(base, <<"B", "D">>) THEN 4
        ELSE IF StartsWith(base, <<"B", "R">>) THEN 3
        ELSE IF StartsWith(base, <<"D">>) THEN 2
        ELSE IF StartsWith(base, <<"R">>) THEN 1
        ELSE 0

\* cycle_map[cycle]: the files of one cycle, in listing order
CycleFiles(fs, cycle) == SelectSeq(fs, LAMBDA f : FilterCycle(f) = cycle)

\* keys of cycle_map
CycleKeys(fs) == {FilterCycle(fs[i]) : i \in 1..Len(fs)} \ {None}

\* file_list.sort(key=get_score, reverse=True); file_list[0]
\* the sort is stable, so the first file of the highest score is taken
BestOf(file_list) ==
    LET top == SetMax({get_score(file_list[i]) : i \in 1..Len(file_list)})
        i0  == SetMin({i \in 1..Len(file_list) : get_score(file_list[i]) = top})
    IN  file_list[i0]

\* final_list, in the order in which cycle_map got its keys
RECURSIVE FinalList(_, _, _)
FinalList(fs, i, seen) ==
    IF i > Len(fs) THEN <<>>
    ELSE LET c == FilterCycle(fs[i])
         IN  IF c = None \/ c \in seen THEN FinalList(fs, i + 1, seen)
             ELSE <<BestOf(CycleFiles(fs, c))>> \o FinalList(fs, i + 1, seen \cup {c})

filter_best_files_EveryFile(fs) == Sorted(fs)

filter_best_files(fs) == Sorted(FinalList(fs, 1, {}))

-----------------------------------------------------------------------------
(* SpecFilter: filter_best_files applied to a listing                      *)

MaxFiles == 3

\* filenames as the archive publishes them: [prefix][float id]_[cycle].nc,
\* descending profiles carry a D after the cycle
R9_1   == <<"R", "9", "_", "1">> \o NC
D9_1   == <<"D", "9", "_", "1">> \o NC
SD9_1  == <<"S", "D", "9", "_", "1">> \o NC
SR9_1  == <<"S", "R", "9", "_", "1">> \o NC
BD9_1  == <<"B", "D", "9", "_", "1">> \o NC
BR9_1  == <<"B", "R", "9", "_", "1">> \o NC
X9_1   == <<"X", "9", "_", "1">> \o NC
R9_1D  == <<"R", "9", "_", "1", "D">> \o NC
R9_01  == <<"R", "9", "_", "0", "1">> \o NC
R9_2   == <<"R", "9", "_", "2">> \o NC
D9_2   == <<"D", "9", "_", "2">> \o NC
R9_3   == <<"R", "9", "_", "3">> \o NC
R91    == <<"R", "9", "1">> \o NC
R9_D   == <<"R", "9", "_", "D">> \o NC
\* names made of a prefix and a cycle only
R001   == <<"R", "0", "0", "1">> \o NC
D001   == <<"D", "0", "0", "1">> \o NC
SD001  == <<"S", "D", "0", "0", "1">> \o NC

Names == {R9_1, D9_1, SD9_1, SR9_1, BD9_1, BR9_1, X9_1, R9_1D, R9_01,
          R9_2, D9_2, R91, R9_D, R001, D001, SD001}

ListsOf(S, n) == UNION {[1..k -> S] : k \in 0..n}

NotCalled == [called |-> FALSE, value |-> <<>>]

FilterIdle == files = <<>> /\ result = NotCalled

\* CacheIdle, LoaderIdle, UpsertIdle and LockIdle: the other machines at rest
CacheIdle ==
    /\ cache = <<>> /\ cacheSize = 0 /\ negCache = <<>> /\ disk = {}
    /\ clock = 0 /\ pc = <<>> /\ call = <<>> /\ useOrder = <<>>

LoaderIdle ==
    /\ listing = <<>> /\ content = <<>> /\ profiles = {} /\ floats = {} /\ measurements = <<>>
    /\ staged = {} /\ run = <<>> /\ units = <<>> /\ hist = <<>>

UpsertIdle == floatRows = {} /\ lastInsert = <<>>

LockIdle ==
    /\ lockOwner = "free" /\ at = <<>> /\ written = <<>>
    /\ cachedUrls = {} /\ negUrls = {}

FilterInit ==
    /\ files \in ListsOf(Names, MaxFiles)
    /\ result = NotCalled
    /\ CacheIdle /\ LoaderIdle /\ UpsertIdle /\ LockIdle

CallFilter ==
    /\ ~result.called
    /\ result' = [called |-> TRUE, value |-> filter_best_files(files)]
    /\ UNCHANGED <<files, cacheVars, loaderVars, upsertVars, lockVars>>

FilterNext == CallFilter

SpecFilter == FilterInit /\ [][FilterNext]_vars

\* the ranking as the documentation states it: SD > SR > BD > BR > D > R,
\* anything else below them
RankedTags == << <<"R">>, <<"D">>, <<"B", "R">>, <<"B", "D">>,
                 <<"S", "R">>, <<"S", "D">> >>

\* two-letter tags are tested before the one-letter tags they end in
TagOf(f) ==
    LET two == {i \in 3..6 : StartsWith(f, RankedTags[i])}
        one == {i \in 1..2 : StartsWith(f, RankedTags[i])}
    IN  IF two # {} THEN SetMax(two) ELSE IF one # {} THEN SetMax(one) ELSE 0

\* C9: filter_best_files returns exactly one filename per cycle number of
\* the input, and it is a file of that cycle with the highest rank under
\* SD > SR > BD > BR > D > R > unrecognised
C9_OnePerCycleHighestRank ==
    result.called =>
        /\ Len(result.value) = Cardinality(CycleKeys(files))
        /\ \A c \in CycleKeys(files) :
             \E i \in 1..Len(result.value) :
                /\ FilterCycle(result.value[i]) = c
                /\ result.value[i] \in Range(files)
                /\ \A f \in Range(files) :
                      FilterCycle(f) = c => TagOf(f) <= TagOf(result.value[i])

\* a cycle with files of several ranks was resolved, next to a second cycle
C9_Witness ==
    /\ result.called
    /\ Len(result.value) = 2
    /\ \E i, j \in 1..Len(files) :
          /\ FilterCycle(files[i]) = FilterCycle(files[j])
          /\ TagOf(files[i]) < TagOf(files[j])
          /\ files[j] \in Range(result.value)

\* the orderings of a list
PermsOf(s) ==
    {t \in [1..Len(s) -> Range(s)] :
        \E p \in [1..Len(s) -> 1..Len(s)] :
            /\ \A i, j \in 1..Len(s) : i # j => p[i] # p[j]
            /\ \A i \in 1..Len(s) : t[i] = s[p[i]]}

\* C10: among files of one cycle and one rank the lexically smaller name is
\* selected, so the selection does not depend on the order of the listing
C10_LexicalTieBreak ==
    result.called =>
        /\ \A i \in 1..Len(result.value) : \A f \in Range(files) :
              (/\ FilterCycle(f) = FilterCycle(result.value[i])
               /\ TagOf(f) = TagOf(result.value[i]))
              => ~StrLess(f, result.value[i])
        /\ \A t \in PermsOf(files) : filter_best_files(t) = result.value

\* s.endswith(p)
EndsWith(s, p) == Len(s) >= Len(p) /\ SubSeq(s, Len(s) - Len(p) + 1, Len(s)) = p

\* the cycle number as the documentation states it: the digits immediately
\* preceding the extension, None when there are none
TrailingCycle(f) ==
    IF ~EndsWith(f, NC) THEN None
    ELSE LET stem == SubSeq(f, 1, Len(f) - Len(NC))
             nond == {i \in 1..Len(stem) : ~IsDigit(stem[i])}
             from == IF nond = {} THEN 1 ELSE SetMax(nond) + 1
         IN  IF from > Len(stem) THEN None
             ELSE ToInt(SubSeq(stem, from, Len(stem)))

\* C11: the cycle number of a file is the digits immediately preceding the
\* extension, a file is excluded only when it has none, and the files
\* R001.nc, D001.nc, SD001.nc, all of cycle 1, resolve to exactly SD001.nc
C11_CycleFromTrailingDigits ==
    result.called =>
        /\ \A f \in Range(files) : FilterCycle(f) = TrailingCycle(f)
        /\ files = <<R001, D001, SD001>> => result.value = <<SD001>>

-----------------------------------------------------------------------------
(* dataset_cache.py: DatasetCache                                          *)

\* the configuration of the cache, scaled down
MaxSizeBytes   == 3
MaxItems       == 2
TtlSeconds     == 1
RetryDownloads == 2
MaxClock       == 2

Threads == {"t1", "t2"}

\* A is a remote url; B and C are paths that exist locally (line 90), as
\* the files auto_loader has staged before it calls the parsers
Urls       == {"A", "B", "C"}
LocalPaths == {"B", "C"}

\* what _approx_dataset_size_bytes may estimate: a size that fits and a
\* size above max_size_bytes
Sizes == {1, MaxSizeBytes + 1}

\* answers of session.get: 200, 404/403, another status, an exception
Answers == {"ok", "permanent", "status", "exception"}

NoEntry == -1

\* the locals of a call; answer is the last answer the download loop got,
\* popped the keys its _make_room_for removed, in the order of removal
NoCall == [op |-> "none", url |-> "none", now |-> 0, attempt |-> 0,
           answer |-> "none", size |-> 0, popped |-> <<>>, ret |-> "none"]

\* an entry of self._cache; last_used_ts is written and never read, the
\* position in the OrderedDict is what the cache goes by
Entry(u, size, created) == [url |-> u, size |-> size, created |-> created]

Keys(c) == {c[i].url : i \in 1..Len(c)}

KeySeq(c) == [i \in 1..Len(c) |-> c[i].url]

RECURSIVE SumSizes(_)
SumSizes(c) == IF c = <<>> THEN 0 ELSE Head(c).size + SumSizes(Tail(c))

Without(c, u) == SelectSeq(c, LAMBDA e : e.url # u)

EntryOf(c, u) == c[CHOOSE i \in 1..Len(c) : c[i].url = u]

\* neg and (t - neg[0]) < self.ttl_seconds
NegActive(u, t) == negCache[u] # NoEntry /\ (t - negCache[u]) < TtlSeconds

\* _make_room_for: pop the tail while the new entry does not fit, recompute
\* the size after each pop; popitem on an empty cache ends the loop
RECURSIVE make_room_for(_, _, _)
make_room_for(c, csize, size_needed) ==
    IF (csize + size_needed > MaxSizeBytes) \/ (Len(c) >= MaxItems)
    THEN IF c = <<>>
         THEN [cache |-> c, size |-> csize, popped |-> <<>>]
         ELSE LET rest == SubSeq(c, 1, Len(c) - 1)
                  r    == make_room_for(rest, SumSizes(rest), size_needed)
              IN  [cache |-> r.cache, size |-> r.size,
                   popped |-> <<c[Len(c)].url>> \o r.popped]
    ELSE [cache |-> c, size |-> csize, popped |-> <<>>]

\* as PutFront, with move_to_end left at its default last=True
PutFront_AtEnd(c, e) == Without(c, e.url) \o <<e>>

\* self._cache.move_to_end(url, last=False) after self._cache[url] = entry
PutFront(c, e) == <<e>> \o Without(c, e.url)

\* history: u becomes the most recently used of the urls in use
Used(order, u) == <<u>> \o SelectSeq(order, LAMBDA x : x # u)

\* history: the urls of S are no longer in use
Dropped(order, S) == SelectSeq(order, LAMBDA x : x \notin S)

CacheInit ==
    /\ cache = <<>>
    /\ cacheSize = 0
    /\ negCache = [u \in Urls |-> NoEntry]
    /\ disk = {}
    /\ clock = 0
    /\ pc = [t \in Threads |-> "idle"]
    /\ call = [t \in Threads |-> NoCall]
    /\ useOrder = <<>>
    /\ FilterIdle /\ LoaderIdle /\ UpsertIdle /\ LockIdle

\* ensure_file returns a path: to the caller, or into get_dataset (line 163)
ReturnPath(t, c) ==
    IF c.op = "get_dataset"
    THEN /\ pc' = [pc EXCEPT ![t] = "open"]
         /\ call' = [call EXCEPT ![t] = c]
    ELSE /\ pc' = [pc EXCEPT ![t] = "done"]
         /\ call' = [call EXCEPT ![t] = [c EXCEPT !.ret = "path"]]

\* ensure_file up to the download loop (lines 90-103): the path itself when
\* it is local, the staged file when it is on disk, an exception while a
\* negative entry is fresh, the download loop otherwise
EnsureFileEntry(t, c) ==
    IF c.url \in LocalPaths \/ c.url \in disk
    THEN ReturnPath(t, c)
    ELSE IF NegActive(c.url, clock)
    THEN /\ pc' = [pc EXCEPT ![t] = "done"]
         /\ call' = [call EXCEPT ![t] = [c EXCEPT !.ret = "previously_failed"]]
    ELSE /\ pc' = [pc EXCEPT ![t] = "download"]
         /\ call' = [call EXCEPT ![t] = c]

\* a thread calls ensure_file(url)
EnsureFileCall(t, u) ==
    /\ pc[t] = "idle"
    /\ EnsureFileEntry(t, [NoCall EXCEPT !.op = "ensure_file", !.url = u])
    /\ UNCHANGED <<cache, cacheSize, negCache, disk, clock, useOrder>>
    /\ UNCHANGED <<filterVars, loaderVars, upsertVars, lockVars>>

\* a thread calls get_dataset(url): now = time.time() (line 141)
GetDatasetCall(t, u) ==
    /\ pc[t] = "idle"
    /\ pc' = [pc EXCEPT ![t] = "lookup"]
    /\ call' = [call EXCEPT ![t] =
                   [NoCall EXCEPT !.op = "get_dataset", !.url = u, !.now = clock]]
    /\ UNCHANGED <<cache, cacheSize, negCache, disk, clock, useOrder>>
    /\ UNCHANGED <<filterVars, loaderVars, upsertVars, lockVars>>

\* _evict_key
evict_key(c, csize, key) ==
    IF key \notin Keys(c) THEN [cache |-> c, size |-> csize]
    ELSE [cache |-> Without(c, key), size |-> csize - EntryOf(c, key).size]

\* get_dataset, the block under the lock (lines 144-160), and on a miss the
\* entry of ensure_file (line 163)
GetDatasetLookup(t) ==
    /\ pc[t] = "lookup"
    /\ LET c == [call[t] EXCEPT !.now = 0]
           u == c.url
           now == call[t].now
       IN  IF NegActive(u, now)
           THEN /\ pc' = [pc EXCEPT ![t] = "done"]
                /\ call' = [call EXCEPT ![t] = [c EXCEPT !.ret = "previously_failed"]]
                /\ UNCHANGED <<cache, cacheSize, useOrder>>
           ELSE IF u \in Keys(cache) /\ ~((now - EntryOf(cache, u).created) > TtlSeconds)
           THEN \* hit: move to the front and return the handle
                /\ cache' = PutFront(cache, EntryOf(cache, u))
                /\ useOrder' = Used(useOrder, u)
                /\ pc' = [pc EXCEPT ![t] = "done"]
                /\ call' = [call EXCEPT ![t] = [c EXCEPT !.ret = "hit"]]
                /\ UNCHANGED cacheSize
           ELSE \* expired (evicted) or absent: a miss
                LET r == evict_key(cache, cacheSize, u)
                IN  /\ cache' = r.cache
                    /\ cacheSize' = r.size
                    /\ useOrder' = Dropped(useOrder, {u})
                    /\ EnsureFileEntry(t, c)
    /\ UNCHANGED <<negCache, disk, clock>>
    /\ UNCHANGED <<filterVars, loaderVars, upsertVars, lockVars>>

\* as AfterFailedAttempt, with a loop over range(retry_downloads + 2)
AfterFailedAttempt_OneMore(attempt) ==
    IF attempt + 1 > RetryDownloads + 1 THEN "exhausted" ELSE "download"

\* where the download loop goes after a failed attempt: the next attempt,
\* or lines 128-131 once range(retry_downloads + 1) is used up
AfterFailedAttempt(attempt) ==
    IF attempt + 1 > RetryDownloads THEN "exhausted" ELSE "download"

\* one pass of the download loop (lines 106-126): a GET and its answer
DownloadAttempt(t, answer) ==
    /\ pc[t] = "download"
    /\ LET c == call[t]
           u == c.url
       IN  CASE answer = "ok" ->
                  \* write the file, return its path
                  /\ disk' = disk \cup {u}
                  /\ UNCHANGED negCache
                  /\ ReturnPath(t, [c EXCEPT !.answer = "ok"])
             [] answer = "permanent" ->
                  \* 404/403: negative entry, then raise last_exc, which the
                  \* except clause of line 123 catches: sleep and continue
                  /\ negCache' = [negCache EXCEPT ![u] = clock]
                  /\ UNCHANGED disk
                  /\ pc' = [pc EXCEPT ![t] = AfterFailedAttempt(c.attempt)]
                  /\ call' = [call EXCEPT ![t] =
                        [c EXCEPT !.attempt = c.attempt + 1, !.answer = "permanent"]]
             [] OTHER ->
                  \* another status, or an exception: sleep and continue
                  /\ UNCHANGED <<negCache, disk>>
                  /\ pc' = [pc EXCEPT ![t] = AfterFailedAttempt(c.attempt)]
                  /\ call' = [call EXCEPT ![t] =
                        [c EXCEPT !.attempt = c.attempt + 1, !.answer = "transient"]]
    /\ UNCHANGED <<cache, cacheSize, clock, useOrder>>
    /\ UNCHANGED <<filterVars, loaderVars, upsertVars, lockVars>>

\* lines 128-131: the budget is used up, negative entry and raise
DownloadExhausted(t) ==
    /\ pc[t] = "exhausted"
    /\ negCache' = [negCache EXCEPT ![call[t].url] = clock]
    /\ pc' = [pc EXCEPT ![t] = "done"]
    /\ call' = [call EXCEPT ![t] = [call[t] EXCEPT !.ret = "download_failed"]]
    /\ UNCHANGED <<cache, cacheSize, disk, clock, useOrder>>
    /\ UNCHANGED <<filterVars, loaderVars, upsertVars, lockVars>>

\* lines 172-185: open in the pool and estimate the size, or raise
OpenDataset(t, ok, size) ==
    /\ pc[t] = "open"
    /\ LET c == [call[t] EXCEPT !.attempt = 0, !.answer = "none"]
       IN  IF ok
           THEN /\ pc' = [pc EXCEPT ![t] = "insert"]
                /\ call' = [call EXCEPT ![t] = [c EXCEPT !.size = size]]
           ELSE /\ pc' = [pc EXCEPT ![t] = "done"]
                /\ call' = [call EXCEPT ![t] = [c EXCEPT !.ret = "open_failed"]]
    /\ UNCHANGED <<cache, cacheSize, negCache, disk, clock, useOrder>>
    /\ UNCHANGED <<filterVars, loaderVars, upsertVars, lockVars>>

\* lines 187-196: make room, store at the front, add the size, return
InsertDataset(t) ==
    /\ pc[t] = "insert"
    /\ LET c == call[t]
           r == make_room_for(cache, cacheSize, c.size)
       IN  /\ cache' = PutFront(r.cache, Entry(c.url, c.size, clock))
           /\ cacheSize' = r.size + c.size
           /\ useOrder' = Used(Dropped(useOrder, Range(r.popped)), c.url)
           /\ pc' = [pc EXCEPT ![t] = "done"]
           /\ call' = [call EXCEPT ![t] =
                          [c EXCEPT !.ret = "opened", !.popped = r.popped]]
    /\ UNCHANGED <<negCache, disk, clock>>
    /\ UNCHANGED <<filterVars, loaderVars, upsertVars, lockVars>>

\* the caller has its result (or its exception)
Return(t) ==
    /\ pc[t] = "done"
    /\ pc' = [pc EXCEPT ![t] = "idle"]
    /\ call' = [call EXCEPT ![t] = NoCall]
    /\ UNCHANGED <<cache, cacheSize, negCache, disk, clock, useOrder>>
    /\ UNCHANGED <<filterVars, loaderVars, upsertVars, lockVars>>

\* clear(), called by any other thread of the process
Clear ==
    /\ cache # <<>> \/ \E u \in Urls : negCache[u] # NoEntry
    /\ cache' = <<>>
    /\ cacheSize' = 0
    /\ negCache' = [u \in Urls |-> NoEntry]
    /\ useOrder' = <<>>
    /\ UNCHANGED <<disk, clock, pc, call>>
    /\ UNCHANGED <<filterVars, loaderVars, upsertVars, lockVars>>

\* time passes
Tick ==
    /\ clock < MaxClock
    /\ clock' = clock + 1
    /\ UNCHANGED <<cache, cacheSize, negCache, disk, pc, call, useOrder>>
    /\ UNCHANGED <<filterVars, loaderVars, upsertVars, lockVars>>

CacheNext ==
    \/ \E t \in Threads, u \in Urls : EnsureFileCall(t, u)
    \/ \E t \in Threads, u \in Urls : GetDatasetCall(t, u)
    \/ \E t \in Threads : GetDatasetLookup(t)
    \/ \E t \in Threads, a \in Answers : DownloadAttempt(t, a)
    \/ \E t \in Threads : DownloadExhausted(t)
    \/ \E t \in Threads, ok \in BOOLEAN, s \in Sizes : OpenDataset(t, ok, s)
    \/ \E t \in Threads : InsertDataset(t)
    \/ \E t \in Threads : Return(t)
    \/ Clear
    \/ Tick

SpecCache == CacheInit /\ [][CacheNext]_vars


\* thread t issues a GET in this step
IssuesGet(t) == pc[t] = "download" /\ call'[t] # call[t]

\* C1: after every operation the sizes of the cached entries add up to at
\* most max_size_bytes and there are at most max_items entries
C1_CacheWithinBounds ==
    /\ SumSizes(cache) <= MaxSizeBytes
    /\ Len(cache) <= MaxItems

\* C5: no GET goes out for a url while its negative entry is younger than
\* ttl_seconds, and a call is refused as previously failed only within
\* that window
C5_NoGetWhileNegative ==
    [][\A t \in Threads :
         /\ IssuesGet(t) => ~NegActive(call[t].url, clock)
         /\ (pc[t] # "done" /\ pc'[t] = "done"
                /\ call'[t].ret = "previously_failed")
            => NegActive(call'[t].url, clock)]_vars

\* C6: ensure_file makes at most retry_downloads + 1 GETs; an answer 200
\* returns the path at once; when the budget is used up it raises and the
\* url is in the negative cache
C6_BoundedRetries ==
    [][\A t \in Threads :
         /\ IssuesGet(t) => call[t].attempt + 1 <= RetryDownloads + 1
         /\ (IssuesGet(t) /\ call'[t].answer = "ok")
            => /\ call[t].url \in disk'
               /\ IF call[t].op = "get_dataset" THEN pc'[t] = "open"
                  ELSE pc'[t] = "done" /\ call'[t].ret = "path"
         /\ (IssuesGet(t) /\ call'[t].answer # "ok"
                /\ call'[t].attempt = RetryDownloads + 1)
            => pc'[t] = "exhausted"
         /\ (pc[t] = "exhausted" /\ pc'[t] # "exhausted")
            => /\ pc'[t] = "done"
               /\ call'[t].ret = "download_failed"
               /\ negCache'[call[t].url] # NoEntry]_vars

\* ensure_file has returned the path on its third GET, after two failures
C6_Witness ==
    \E t \in Threads :
        /\ pc[t] = "done"
        /\ call[t].op = "ensure_file"
        /\ call[t].ret = "path"
        /\ call[t].attempt = 2
        /\ call[t].answer = "ok"

\* C7: an answer 404 or 403 ends the call: negative entry, exception, no
\* further GET
C7_PermanentShortCircuits ==
    \A t \in Threads :
        call[t].answer = "permanent"
        => /\ pc[t] = "done"
           /\ call[t].ret = "download_failed"

\* C8: the keys get_dataset removes to make room are the least recently
\* used ones (used = inserted or returned by a hit), the least recent first
C8_EvictsLeastRecentlyUsed ==
    [][\A t \in Threads :
         (pc[t] = "insert" /\ pc'[t] = "done")
         => LET popped == call'[t].popped
                n == Len(useOrder)
            IN  /\ Len(popped) <= n
                /\ \A i \in 1..Len(popped) : popped[i] = useOrder[n - i + 1]
                /\ KeySeq(cache') =
                      <<call[t].url>> \o
                      SelectSeq(SubSeq(useOrder, 1, n - Len(popped)),
                                LAMBDA u : u # call[t].url)]_vars

\* a third url was inserted into a cache of two, and the older of the two
\* went
C8_Witness ==
    \E t \in Threads :
        /\ pc[t] = "done"
        /\ call[t].ret = "opened"
        /\ Len(call[t].popped) = 1
        /\ Len(cache) = 2
        /\ call[t].popped[1] \notin Keys(cache)
        /\ SumSizes(cache) <= MaxSizeBytes

-----------------------------------------------------------------------------
(* auto_loader.py: successive runs of auto_loader for one float            *)

MaxListing == 3
MaxRuns    == 2

\* MAX_WORKERS, scaled down
MaxWorkers == 2

\* rows parse_profile_measurements yields for a file with measurements
MeasRows == 2

\* DACS, the first three of the nine
Dacs == <<"incois", "aoml", "coriolis">>

\* what requests.head gives for a root: status 200, another status, an
\* exception
ProbeAnswers == {"200", "404", "exception"}

\* the files the archive may list for the float
ArchiveNames == {R9_1, R9_1D, D9_2, R9_3}

\* what is in a file: nothing the profile parser accepts, a profile whose
\* measurements cannot be parsed, a profile with measurements
Kinds == {"unparsable", "profile", "full"}

\* the index page of the archive names a file once, in ascending order
Listings ==
    {l \in ListsOf(ArchiveNames, MaxListing) :
        \A i, j \in 1..Len(l) : i < j => StrLess(l[i], l[j])}

\* CYCLE_NUMBER of a file: the cycle its name carries
ContentCycle(f) == FilterCycle(f)

Cycles == {ContentCycle(f) : f \in ArchiveNames}

RECURSIVE SumOver(_, _)
SumOver(fn, S) ==
    IF S = {} THEN 0
    ELSE LET x == CHOOSE y \in S : TRUE IN fn[x] + SumOver(fn, S \ {x})

\* rows per table: floats, profiles, measurements
RowCounts ==
    <<Cardinality(floats), Cardinality(profiles), SumOver(measurements, Cycles)>>

\* the locals of a call of auto_loader: probes holds the answers the roots
\* probed so far gave, base the position in DACS of the root chosen
NoRun == [no |-> 0, phase |-> "idle", probes |-> <<>>, base |-> 0,
          existing |-> {}, toProcess |-> <<>>,
          meta |-> FALSE, clean |-> FALSE, queries |-> 0,
          interrupted |-> FALSE]

\* history: ended is the place where the last call of auto_loader left,
\* outcome what its caller got (a return, or an exception by its name)
NoHist == [prevClean |-> FALSE, startCounts |-> <<0, 0, 0>>, failed |-> {},
           ended |-> "none", outcome |-> "none"]

LoaderInit ==
    /\ listing \in Listings
    /\ content \in [Range(listing) -> Kinds]
    /\ profiles = {}
    /\ floats = {}
    /\ measurements = [c \in Cycles |-> 0]
    /\ staged = {}
    /\ run = NoRun
    /\ units = <<>>
    /\ hist = NoHist
    /\ FilterIdle /\ CacheIdle /\ UpsertIdle /\ LockIdle

\* get_existing_cycles: SELECT DISTINCT cycle FROM profiles
get_existing_cycles == profiles

\* lines 335-340: the files whose cycle, as extract_cycle reads it, is not
\* among the existing cycles
FilesToProcess(new_files, existing_cycles) ==
    SelectSeq(new_files,
              LAMBDA f : ~(extract_cycle(f) # None
                           /\ extract_cycle(f) \in existing_cycles))

\* as Returned, with an exception in the place of the bare return
Returned_Raising(h, where) == [h EXCEPT !.ended = where, !.outcome = "Exception"]

\* a bare return of auto_loader: the caller gets None
Returned(h, where) == [h EXCEPT !.ended = where, !.outcome = "returned"]

\* the loops that call auto_loader for one float after the other
Callers == {"main_loader", "daily_update"}

\* the loop goes on to its next float: main_loader.py:44-47 calls
\* auto_loader bare, daily_update.py:69-74 inside try/except Exception,
\* which does not catch KeyboardInterrupt
LoopContinues(caller, outcome) ==
    \/ outcome \in {"none", "returned"}
    \/ caller = "daily_update" /\ outcome # "KeyboardInterrupt"

\* auto_loader is called, by a loop that has not been left
StartRun ==
    /\ run.phase = "idle"
    /\ run.no < MaxRuns
    /\ \E caller \in Callers : LoopContinues(caller, hist.outcome)
    /\ hist' = [hist EXCEPT !.prevClean = run.clean, !.startCounts = RowCounts,
                            !.ended = "none", !.outcome = "none"]
    /\ run' = [NoRun EXCEPT !.no = run.no + 1, !.phase = "locate"]
    /\ UNCHANGED <<listing, content, profiles, floats, measurements, staged, units>>
    /\ UNCHANGED <<filterVars, cacheVars, upsertVars, lockVars>>

\* as Found, with any response taken for the directory of the float
Found_AnyResponse(answer) == answer # "exception"

\* line 296: resp.status_code == 200
Found(answer) == answer = "200"

\* one pass of the loop over DACS (lines 290-302) and, after the last root,
\* lines 304-306: a 200 ends the loop with base set, any other status and
\* an exception go on to the next root, no base after the last root returns
Probe(answer) ==
    /\ run.phase = "locate"
    /\ LET i == Len(run.probes) + 1
           r == [run EXCEPT !.probes = Append(@, answer)]
       IN  IF Found(answer)
           THEN /\ run' = [r EXCEPT !.base = i, !.phase = "list"]
                /\ UNCHANGED hist
           ELSE IF i < Len(Dacs)
           THEN /\ run' = r
                /\ UNCHANGED hist
           ELSE /\ run' = [r EXCEPT !.phase = "idle"]
                /\ hist' = Returned(hist, "no_archive")
    /\ UNCHANGED <<listing, content, profiles, floats, measurements, staged, units>>
    /\ UNCHANGED <<filterVars, cacheVars, upsertVars, lockVars>>

\* lines 311-354: list the profiles of the root, keep the best file of each
\* cycle, drop the cycles already in the database
ListFiles(ok) ==
    /\ run.phase = "list"
    /\ IF ~ok
       THEN /\ run' = [run EXCEPT !.phase = "idle", !.probes = <<>>, !.base = 0]
            /\ hist' = Returned(hist, "listing_failed")
       ELSE LET new_files == filter_best_files(listing)
                existing  == get_existing_cycles
                todo      == FilesToProcess(new_files, existing)
            IN  /\ run' = [run EXCEPT !.phase = IF todo = <<>> THEN "idle" ELSE "meta",
                                      !.probes = <<>>, !.base = 0,
                                      !.existing = existing,
                                      !.toProcess = todo,
                                      !.clean = TRUE,
                                      !.queries = 1]
                /\ hist' = IF todo = <<>> THEN Returned(hist, "nothing_new") ELSE hist
    /\ UNCHANGED <<listing, content, profiles, floats, measurements, staged, units>>
    /\ UNCHANGED <<filterVars, cacheVars, upsertVars, lockVars>>

MetaFile == <<"m", "e", "t", "a">>

\* lines 356-439: the metadata file is fetched and parsed once, then every
\* file to process is submitted to the pool (the float-level tables meta_kv,
\* tech and traj written in between are not among the tables modelled)
PreloadMeta(ok) ==
    /\ run.phase = "meta"
    /\ MetaFile \in staged => ok
    /\ run' = [run EXCEPT !.phase = "pool", !.meta = ok,
                          !.clean = run.clean /\ ok]
    /\ staged' = IF ok THEN staged \cup {MetaFile} ELSE staged
    /\ units' = [f \in Range(run.toProcess) |-> "queued"]
    /\ UNCHANGED <<listing, content, profiles, floats, measurements, hist>>
    /\ UNCHANGED <<filterVars, cacheVars, upsertVars, lockVars>>

\* the states of a unit in which process_single_file has returned
Terminal == {"ok", "failed_stage", "failed_parse", "failed_db"}

\* the units a worker thread is running
Active(u) == {f \in DOMAIN u : u[f] \notin Terminal \cup {"queued"}}

\* the work queue of the executor is first in, first out
NextQueued(u, order) ==
    LET q == SelectSeq(order, LAMBDA f : u[f] = "queued")
    IN  IF q = <<>> THEN {} ELSE {Head(q)}

\* a worker takes the next unit from the queue; process_single_file, lines
\* 214-216: download_file, one requests.get unless the file is on disk
StageFile(f, ok) ==
    /\ run.phase = "pool"
    /\ f \in NextQueued(units, run.toProcess)
    /\ Cardinality(Active(units)) < MaxWorkers
    /\ f \in staged => ok
    /\ units' = [units EXCEPT ![f] = IF ok THEN "staged" ELSE "failed_stage"]
    /\ staged' = IF ok THEN staged \cup {f} ELSE staged
    /\ run' = [run EXCEPT !.clean = run.clean /\ ok]
    /\ UNCHANGED <<listing, content, profiles, floats, measurements, hist>>
    /\ UNCHANGED <<filterVars, cacheVars, upsertVars, lockVars>>

\* the estimate of _approx_dataset_size_bytes for a profile file
ProfileSize == 1

\* CACHE.get_dataset(local_file) as a parser calls it: a hit moves the entry
\* to the front; a miss opens the file, makes room (closing what it pops)
\* and stores the handle at the front
GetHandle(c, csize, f) ==
    IF f \in Keys(c)
    THEN [cache |-> PutFront(c, EntryOf(c, f)), size |-> csize]
    ELSE LET r == make_room_for(c, csize, ProfileSize)
         IN  [cache |-> PutFront(r.cache, Entry(f, ProfileSize, 0)),
              size |-> r.size + ProfileSize]

\* parse_profile_arrays, line 97, and parse_profile_measurements, line 130:
\* the parser gets the dataset of the staged file from the shared cache
GetDataset(f) ==
    /\ run.phase = "pool"
    /\ f \in DOMAIN units
    /\ units[f] \in {"staged", "parsed"}
    /\ LET r == GetHandle(cache, cacheSize, f)
       IN  /\ cache' = r.cache
           /\ cacheSize' = r.size
    /\ units' = [units EXCEPT ![f] = IF units[f] = "staged" THEN "arrays"
                                     ELSE "measures"]
    /\ UNCHANGED <<negCache, disk, clock, pc, call, useOrder>>
    /\ UNCHANGED <<listing, content, profiles, floats, measurements, staged, run, hist>>
    /\ UNCHANGED <<filterVars, upsertVars, lockVars>>

\* a handle is closed when its entry has been popped from the cache
Closed(f) == f \notin Keys(cache)

\* process_single_file, lines 222-229: parse_profile_arrays reads the
\* dataset; a read of a closed dataset may raise or may reopen the file
ReadArrays(f, readable) ==
    /\ run.phase = "pool"
    /\ f \in DOMAIN units
    /\ units[f] = "arrays"
    /\ ~Closed(f) => readable
    /\ IF ~readable
       THEN /\ units' = [units EXCEPT ![f] = "failed_parse"]
            /\ run' = [run EXCEPT !.clean = FALSE]
       ELSE /\ units' = [units EXCEPT ![f] =
                            IF content[f] = "unparsable" THEN "failed_parse"
                            ELSE "parsed"]
            /\ UNCHANGED run
    /\ UNCHANGED <<listing, content, profiles, floats, measurements, staged, hist>>
    /\ UNCHANGED <<filterVars, cacheVars, upsertVars, lockVars>>

\* process_single_file, lines 232-235: parse_profile_measurements reads the
\* dataset; an exception leaves measure_data None and the unit goes on
ReadMeasurements(f, readable) ==
    /\ run.phase = "pool"
    /\ f \in DOMAIN units
    /\ units[f] = "measures"
    /\ ~Closed(f) => readable
    /\ units' = [units EXCEPT ![f] =
                    IF readable /\ content[f] = "full" THEN "ready"
                    ELSE "ready_none"]
    /\ run' = [run EXCEPT !.clean = run.clean /\ readable]
    /\ UNCHANGED <<listing, content, profiles, floats, measurements, staged, hist>>
    /\ UNCHANGED <<filterVars, cacheVars, upsertVars, lockVars>>

\* as insert_measurements, without the check for existing rows
insert_measurements_Unchecked(rows, cycle, n) ==
    [rows EXCEPT ![cycle] = rows[cycle] + n]

\* insert_measurements: a batch is skipped when a row of its key exists
insert_measurements(rows, cycle, n) ==
    IF rows[cycle] > 0 THEN rows ELSE [rows EXCEPT ![cycle] = rows[cycle] + n]

\* what the writes of a transaction may do: all succeed; insert_float_metadata
\* raises before its statement reaches the database (the ValueError of
\* insert_float.py:29-33, a value that cannot be bound); a statement fails
\* in the database
DbAnswers == {"ok", "float_raises", "statement_fails"}

\* process_single_file, lines 240-273: one transaction with the floats
\* upsert (its exception is caught at lines 257-258), the profiles upsert
\* and the measurements insert
PersistFile(f, db) ==
    /\ run.phase = "pool"
    /\ f \in DOMAIN units
    /\ units[f] \in {"ready", "ready_none"}
    /\ db = "float_raises" => run.meta
    /\ LET cycle == ContentCycle(f)
       IN  IF db = "statement_fails"
           THEN \* the exception leaves the with block: rollback
                /\ units' = [units EXCEPT ![f] = "failed_db"]
                /\ UNCHANGED <<profiles, floats, measurements>>
           ELSE /\ units' = [units EXCEPT ![f] = "ok"]
                /\ floats' = IF run.meta /\ db = "ok" THEN floats \cup {cycle}
                             ELSE floats
                /\ profiles' = profiles \cup {cycle}
                /\ measurements' =
                      IF units[f] = "ready"
                      THEN insert_measurements(measurements, cycle, MeasRows)
                      ELSE measurements
    /\ run' = [run EXCEPT !.clean = run.clean /\ db = "ok"]
    /\ UNCHANGED <<listing, content, staged, hist>>
    /\ UNCHANGED <<filterVars, cacheVars, upsertVars, lockVars>>

\* KeyboardInterrupt reaches the main thread while it waits for the futures
Interrupt ==
    /\ run.phase = "pool"
    /\ ~run.interrupted
    /\ run' = [run EXCEPT !.interrupted = TRUE]
    /\ UNCHANGED <<listing, content, profiles, floats, measurements, staged, units, hist>>
    /\ UNCHANGED <<filterVars, cacheVars, upsertVars, lockVars>>

\* as PoolDone, with the first failed unit ending the wait
PoolDone_FirstFailure(u) ==
    \/ \A f \in DOMAIN u : u[f] \in Terminal
    \/ \E f \in DOMAIN u : u[f] \in Terminal \ {"ok"}

\* the exit of the with block waits for every future
PoolDone(u) == \A f \in DOMAIN u : u[f] \in Terminal

\* lines 441-452: the loop over as_completed ends, or the interrupt leaves
\* it, by the return of line 449 when it arrived inside the try and by the
\* exception itself when it arrived in as_completed; either way the with
\* block is left through shutdown(wait=True); the process ends and the
\* cache with it
EndRun(raised) ==
    /\ run.phase = "pool"
    /\ PoolDone(units)
    /\ raised => run.interrupted
    /\ run' = [run EXCEPT !.phase = "idle", !.interrupted = FALSE]
    /\ hist' = [hist EXCEPT
                   !.failed = {ContentCycle(f) :
                                 f \in {g \in DOMAIN units : units[g] \notin {"ok"}}},
                   !.ended = IF run.interrupted THEN "interrupted" ELSE "completed",
                   !.outcome = IF raised THEN "KeyboardInterrupt" ELSE "returned"]
    /\ units' = <<>>
    /\ cache' = <<>>
    /\ cacheSize' = 0
    /\ UNCHANGED <<negCache, disk, clock, pc, call, useOrder>>
    /\ UNCHANGED <<listing, content, profiles, floats, measurements, staged>>
    /\ UNCHANGED <<filterVars, upsertVars, lockVars>>

LoaderNext ==
    \/ StartRun
    \/ \E answer \in ProbeAnswers : Probe(answer)
    \/ \E ok \in BOOLEAN : ListFiles(ok)
    \/ \E ok \in BOOLEAN : PreloadMeta(ok)
    \/ \E f \in ArchiveNames, ok \in BOOLEAN : StageFile(f, ok)
    \/ \E f \in ArchiveNames : GetDataset(f)
    \/ \E f \in ArchiveNames, readable \in BOOLEAN : ReadArrays(f, readable)
    \/ \E f \in ArchiveNames, readable \in BOOLEAN : ReadMeasurements(f, readable)
    \/ \E f \in ArchiveNames, db \in DbAnswers : PersistFile(f, db)
    \/ Interrupt
    \/ \E raised \in BOOLEAN : EndRun(raised)

SpecLoader == LoaderInit /\ [][LoaderNext]_vars

\* the cycles of the files submitted in the run in progress
SubmittedCycles == {FilterCycle(f) : f \in Range(run.toProcess)}

C3_CommittedNeverResubmitted ==
    run.phase = "pool" =>
        /\ SubmittedCycles \cap run.existing = {}
        /\ run.no >= 2 => (hist.failed \ run.existing) \subseteq SubmittedCycles

\* C4: the submitted cycles are the resolved cycles minus the persisted
\* ones, and the persisted ones are read once per run
C4_DeltaIsExact ==
    (run.no >= 1 /\ run.queries > 0) =>
        /\ SubmittedCycles = CycleKeys(listing) \ run.existing
        /\ run.queries = 1

\* the cycle numbers of a list of files, as filter_best_files reads them
CyclesOf(fs) == [i \in 1..Len(fs) |-> FilterCycle(fs[i])]

Ascending(cs) == \A i, j \in 1..Len(cs) : i < j => cs[i] < cs[j]

\* C12: filter_best_files returns its files in ascending order of cycle
\* number, and the units are submitted to the pool in that order
C12_AscendingCycleOrder ==
    run.phase = "pool" =>
        /\ Ascending(CyclesOf(filter_best_files(listing)))
        /\ Ascending(CyclesOf(run.toProcess))

\* a step of some unit of the pool
UnitStep ==
    \E f \in ArchiveNames :
        \/ \E ok \in BOOLEAN : StageFile(f, ok)
        \/ GetDataset(f)
        \/ \E readable \in BOOLEAN : ReadArrays(f, readable)
        \/ \E readable \in BOOLEAN : ReadMeasurements(f, readable)
        \/ \E db \in DbAnswers : PersistFile(f, db)

Failed == Terminal \ {"ok"}

\* a unit fails in this step
FailsNow(f) ==
    /\ f \in DOMAIN units /\ f \in DOMAIN units'
    /\ units[f] \notin Failed /\ units'[f] \in Failed

\* C13: the failure of a unit at staging, parsing or persisting stays in the
\* unit: the step in which it fails changes no other unit and no table and
\* leaves the pool running, auto_loader leaves the pool only when every unit
\* is terminal, the profiles row of a unit that succeeded is committed, and
\* after a failure a unit that is not terminal can still step
C13_FailureIsContained ==
    /\ [][\A f \in ArchiveNames :
            FailsNow(f) =>
               /\ run'.phase = "pool"
               /\ \A g \in DOMAIN units \ {f} : units'[g] = units[g]
               /\ <<profiles', floats', measurements'>> =
                     <<profiles, floats, measurements>>]_vars
    /\ [][(run.phase = "pool" /\ run'.phase # "pool") =>
            \A f \in DOMAIN units : units[f] \in Terminal]_vars
    /\ [](\A f \in DOMAIN units :
            units[f] = "ok" => ContentCycle(f) \in profiles)
    /\ []((run.phase = "pool"
             /\ (\E f \in DOMAIN units : units[f] \in Failed)
             /\ (\E f \in DOMAIN units : units[f] \notin Terminal))
            => ENABLED UnitStep)

\* a pool in which a unit failed at staging or parsing, a unit failed in its
\* transaction and a unit committed has run to its end
C13_Witness ==
    /\ run.phase = "pool"
    /\ \A f \in DOMAIN units : units[f] \in Terminal
    /\ \E f, g, h \in DOMAIN units :
          /\ units[f] \in {"failed_stage", "failed_parse"}
          /\ units[g] = "failed_db"
          /\ units[h] = "ok"
          /\ ContentCycle(h) \in profiles

\* C14: when a write of a unit's transaction fails, the float metadata
\* upsert included, the unit fails and none of its rows is committed, and
\* the cycles of the failed units are in the delta of the next run
C14_FailedWriteRollsBack ==
    /\ [][\A f \in ArchiveNames : \A db \in DbAnswers \ {"ok"} :
            PersistFile(f, db) =>
               /\ units'[f] \in Failed
               /\ <<profiles', floats', measurements'>> =
                     <<profiles, floats, measurements>>]_vars
    /\ []((run.phase = "pool" /\ run.no >= 2) =>
            (hist.failed \ run.existing) \subseteq SubmittedCycles)

\* the unit is at the end of a failed parse: of the profile arrays of a file
\* the parser does not accept, or of the measurements
ExtractorFailed(f) ==
    /\ f \in DOMAIN units
    /\ \/ units[f] = "arrays" /\ content[f] = "unparsable"
       \/ units[f] = "ready_none"

\* C15: a unit whose profile-arrays parse or measurements parse failed is
\* marked failed and writes no row, and the run goes on
C15_ExtractorFailureSkipsUnit ==
    [][\A f \in ArchiveNames :
          (ExtractorFailed(f) /\ f \in DOMAIN units' /\ units'[f] # units[f]) =>
             /\ units'[f] \in Failed
             /\ <<profiles', floats', measurements'>> =
                   <<profiles, floats, measurements>>
             /\ run'.phase = "pool"]_vars

\* the unit commits when the units run one after another under the answers
\* of the network and the database it got: no handle is closed before it is
\* read then, so the unit fails only at staging, on a file the parser does
\* not accept, or in its transaction
SeqOk(f) ==
    content[f] # "unparsable" /\ units[f] \notin {"failed_stage", "failed_db"}

\* C16: N units of N new cycles on a pool of fewer than N workers leave the
\* row counts that the units run one after another leave: the same units
\* commit (which settles the floats rows), and the profiles and measurements
\* rows are those of the units that commit one after another
C16_SameRowsAsSequential ==
    (/\ run.phase = "pool"
     /\ \A f \in DOMAIN units : units[f] \in Terminal
     /\ Cardinality(DOMAIN units) > MaxWorkers
     /\ \A f \in DOMAIN units : ContentCycle(f) \notin run.existing)
    =>
    /\ \A f \in DOMAIN units : SeqOk(f) => units[f] = "ok"
    /\ RowCounts[2] = hist.startCounts[2]
                        + Cardinality({f \in DOMAIN units : SeqOk(f)})
    /\ RowCounts[3] = hist.startCounts[3]
                        + MeasRows * Cardinality({f \in DOMAIN units :
                                                    SeqOk(f) /\ content[f] = "full"})

\* C17: after an interrupt during the pool phase no unit that has not
\* started is started, and auto_loader returns only when every unit that
\* was started has finished its transaction
C17_InterruptStartsNothing ==
    /\ [][(run.phase = "pool" /\ run.interrupted) =>
            \A f \in DOMAIN units :
               (units[f] = "queued" /\ f \in DOMAIN units') =>
                  units'[f] = "queued"]_vars
    /\ [][(run.phase = "pool" /\ run.interrupted /\ run'.phase # "pool") =>
            \A f \in DOMAIN units : units[f] \in Terminal \cup {"queued"}]_vars

\* C18: a unit whose download fails is tried again in the same run before
\* it is declared failed, so the first failed download of a unit does not
\* leave the unit failed
C18_StagingIsRetried ==
    [][\A f \in ArchiveNames :
          StageFile(f, FALSE) => units'[f] # "failed_stage"]_vars

C20_NoArchiveIsAnError ==
    hist.ended = "no_archive" => hist.outcome = "NoArchiveFoundError"

\* C21: a run whose listing request failed has submitted no unit and
\* written no row, and both loops over the floats go on to the next float
C21_ListingFailureSkipsEntity ==
    hist.ended = "listing_failed" =>
        /\ run.phase = "idle"
        /\ units = <<>> /\ run.toProcess = <<>>
        /\ RowCounts = hist.startCounts
        /\ \A caller \in Callers : LoopContinues(caller, hist.outcome)
        /\ run.no < MaxRuns => ENABLED StartRun

\* the listing of the first float of the loop failed while the database
\* holds nothing, and the loop has a float left
C21_Witness ==
    /\ hist.ended = "listing_failed"
    /\ run.no = 1
    /\ run.no < MaxRuns


-----------------------------------------------------------------------------
\* insert_float_metadata: the upsert of one row of table floats

\* Python's None in a text or numeric field of the parsed data, and SQL's
\* NULL in a column
NoValue == "None"

FloatIds == {"9"}
FloatCycles == {1, 2}
Latitudes == {NoValue, "10.5"}
Longitudes == {NoValue, "30.5"}
\* a text field read from the meta file: absent, blank or filled
WmoIds == {NoValue, "", "w1"}
EndMissionDates == {NoValue, "", "d1"}

\* the dictionaries the parser hands over.  latitude and longitude stand for
\* the columns set from EXCLUDED (profile_number, juld, source_file are set
\* the same way), wmo_id for the columns set through COALESCE without a
\* conversion (platform_type, project_name, pi_name, end_mission_status)
ValidData ==
    [float_id : FloatIds, cycle : FloatCycles, latitude : Latitudes, longitude : Longitudes,
     wmo_id : WmoIds, end_mission_date : EndMissionDates]

\* a dictionary without float_id, and one without cycle
InvalidData ==
    {[float_id |-> NoValue, cycle |-> 1, latitude |-> "10.5", longitude |-> "30.5",
      wmo_id |-> "w1", end_mission_date |-> "d1"],
     [float_id |-> "9", cycle |-> None, latitude |-> "10.5", longitude |-> "30.5",
      wmo_id |-> "w1", end_mission_date |-> "d1"]}

Datas == ValidData \cup InvalidData

\* `x or None`: an empty string is false in Python
OrNone(v) == IF v = "" THEN NoValue ELSE v

\* the parameters bound to the statement
Params(data) == [data EXCEPT !.end_mission_date = OrNone(data.end_mission_date)]

NullGeom == [x |-> NoValue, y |-> NoValue]

\* the value of geom_expr: ST_MakePoint(:longitude, :latitude) or NULL
GeomExpr(params) ==
    IF params.latitude # NoValue /\ params.longitude # NoValue
        THEN [x |-> params.longitude, y |-> params.latitude]
        ELSE NullGeom

\* the row proposed for insertion (EXCLUDED in the DO UPDATE clause)
Excluded(params) ==
    [float_id |-> params.float_id, cycle |-> params.cycle,
     latitude |-> params.latitude, longitude |-> params.longitude,
     wmo_id |-> params.wmo_id, end_mission_date |-> params.end_mission_date,
     geom |-> GeomExpr(params)]

Coalesce_Excluded(a, b) == a

\* SQL COALESCE of two values
Coalesce(a, b) == IF a # NoValue THEN a ELSE b

\* DO UPDATE SET ... of the stored row old with the proposed row ex
DoUpdate(old, ex) ==
    [old EXCEPT !.latitude = ex.latitude,
                !.longitude = ex.longitude,
                !.wmo_id = Coalesce(ex.wmo_id, old.wmo_id),
                !.end_mission_date = Coalesce(ex.end_mission_date, old.end_mission_date),
                !.geom = ex.geom]

\* the rows of the table with the key (float_id, cycle)
RowsOf(table, float_id, cycle) ==
    {r \in table : r.float_id = float_id /\ r.cycle = cycle}

\* INSERT ... ON CONFLICT (float_id, cycle) DO UPDATE
Upsert(table, ex) ==
    LET conflict == RowsOf(table, ex.float_id, ex.cycle)
    IN  IF conflict = {}
            THEN table \cup {ex}
            ELSE (table \ conflict) \cup {DoUpdate(old, ex) : old \in conflict}

NoInsert == [status |-> "none", data |-> <<>>, conflict |-> FALSE]

UpsertInit ==
    /\ floatRows = {}
    /\ lastInsert = NoInsert
    /\ FilterIdle /\ CacheIdle /\ LoaderIdle /\ LockIdle

\* one call of insert_float_metadata(conn, data)
insert_float_metadata(data) ==
    /\ IF data.float_id = NoValue \/ data.cycle = None
           THEN /\ lastInsert' = [status |-> "ValueError", data |-> data, conflict |-> FALSE]
                /\ UNCHANGED floatRows
           ELSE /\ floatRows' = Upsert(floatRows, Excluded(Params(data)))
                /\ lastInsert' = [status |-> "done", data |-> data,
                                  conflict |-> RowsOf(floatRows, data.float_id, data.cycle) # {}]
    /\ UNCHANGED <<filterVars, cacheVars, loaderVars, lockVars>>

UpsertNext == \E data \in Datas : insert_float_metadata(data)

SpecUpsert == UpsertInit /\ [][UpsertNext]_vars

\* the columns of the claim that the model carries: set unconditionally,
\* and set only from a non-null value
CoalescedColumns == {"wmo_id", "end_mission_date"}

\* C22: a call of insert_float_metadata on a key that has a row leaves
\* exactly one row for the key and touches no other row; the row has the
\* new latitude and longitude, and the geometry made from them (NULL when
\* one is missing); wmo_id and end_mission_date change only when the new
\* value is non-null, and then to the new value, and stay as stored when it
\* is null; a non-null wmo_id always replaces the stored one
C22_UpsertOnExistingKey ==
    [][(lastInsert'.status = "done" /\ lastInsert'.conflict) =>
        LET d == lastInsert'.data
            before == RowsOf(floatRows, d.float_id, d.cycle)
            after == RowsOf(floatRows', d.float_id, d.cycle)
        IN  /\ Cardinality(after) = 1
            /\ Cardinality(floatRows') = Cardinality(floatRows)
            /\ floatRows' \ after = floatRows \ before
            /\ \A old \in before : \A new \in after :
                /\ new.latitude = d.latitude
                /\ new.longitude = d.longitude
                /\ new.geom = IF d.latitude = NoValue \/ d.longitude = NoValue
                                  THEN NullGeom
                                  ELSE [x |-> d.longitude, y |-> d.latitude]
                /\ \A c \in CoalescedColumns :
                    /\ new[c] # old[c] => d[c] # NoValue /\ new[c] = d[c]
                    /\ d[c] = NoValue => new[c] = old[c]
                /\ d.wmo_id # NoValue => new.wmo_id = d.wmo_id]_vars

\* the row of cycle 1 was stored with a wmo_id and an end-of-mission date,
\* next to a row of cycle 2; a second call for cycle 1 brought neither and
\* no latitude: the row keeps both, and has lost its position and geometry
C22_Witness ==
    /\ lastInsert.status = "done" /\ lastInsert.conflict
    /\ lastInsert.data.cycle = 1
    /\ lastInsert.data.wmo_id = NoValue
    /\ lastInsert.data.end_mission_date = NoValue
    /\ lastInsert.data.latitude = NoValue
    /\ \E r \in floatRows :
        /\ r.cycle = 1 /\ r.wmo_id = "w1" /\ r.end_mission_date = "d1"
        /\ r.latitude = NoValue /\ r.geom = NullGeom
    /\ \E r \in floatRows : r.cycle = 2

\* an empty end_mission_date is bound as NULL, so the stored date stays;
\* an empty wmo_id is bound as it is and replaces the stored one
C22_EmptyDateKeepsStored ==
    /\ lastInsert.status = "done" /\ lastInsert.conflict
    /\ lastInsert.data.end_mission_date = ""
    /\ lastInsert.data.wmo_id = ""
    /\ \E r \in floatRows :
        /\ r.cycle = lastInsert.data.cycle
        /\ r.end_mission_date = "d1" /\ r.wmo_id = ""


\* C23: the units of a run carry pairwise different cycles of the one float
\* the run is for, so no two workers are in a transaction for the same
\* (float, cycle) at once
C23_OneUnitPerKey ==
    \A f, g \in DOMAIN units :
        f # g => /\ ContentCycle(f) # ContentCycle(g)
                 /\ ~(ContentCycle(f) = ContentCycle(g)
                      /\ units[f] \in {"ready", "ready_none"}
                      /\ units[g] \in {"ready", "ready_none"})

\* the archive lists two files of cycle 1, R9_1.nc and R9_1D.nc, and a file
\* of cycle 2; two workers are about to open their transactions at once
C23_Witness ==
    /\ run.phase = "pool"
    /\ R9_1 \in Range(listing) /\ R9_1D \in Range(listing)
    /\ Cardinality({f \in DOMAIN units : units[f] \in {"ready", "ready_none"}}) = 2


-----------------------------------------------------------------------------
\* DatasetCache line by line: the lock, the downloads and the opens of the
\* threads that call ensure_file and get_dataset at once.  Sizes, eviction
\* order and the clock are those of SpecCache and are left out here: a
\* cached url has an entry, expired or not, and a url of negUrls has a
\* fresh negative entry.

CallerThreads == {"t1", "t2"}

\* two remote resources, neither a local path
Resources == {"X", "Y"}

\* download_workers and open_workers of the constructor.  CACHE is built
\* with download_workers=2; it is 1 here so that two calling threads are
\* more threads than download workers
DownloadWorkers == 1

OpenWorkers == 1

NoPosition == [pos |-> "idle", op |-> "none", url |-> "none", attempt |-> 0,
               result |-> "none"]

\* the positions at the head of a `with self._lock:` block: a thread waits
\* there for the lock and, once it owns the lock, runs the block
LockedBlocks == {"lookup", "neg_check", "neg_write", "neg_final", "insert"}

\* the positions at which a thread is in session.get, in time.sleep or
\* waits for xr.open_dataset
Blocking == {"get", "sleep", "open_queued", "opening"}

ThreadsInit ==
    /\ lockOwner = "free"
    /\ at = [t \in CallerThreads |-> NoPosition]
    /\ written = [u \in Resources |-> "absent"]
    /\ cachedUrls = {}
    /\ negUrls = {}
    /\ FilterIdle /\ CacheIdle /\ LoaderIdle /\ UpsertIdle

Goto(t, p) == [at EXCEPT ![t].pos = p]

\* a thread calls get_dataset(url) or ensure_file(url)
Enter(t, op, u) ==
    /\ at[t].pos = "idle"
    /\ at' = [at EXCEPT ![t] = [NoPosition EXCEPT
                  !.pos = IF op = "get_dataset" THEN "lookup" ELSE "disk_check",
                  !.op = op, !.url = u]]
    /\ UNCHANGED <<lockOwner, written, cachedUrls, negUrls>>
    /\ UNCHANGED <<filterVars, cacheVars, loaderVars, upsertVars>>

\* `with self._lock:` is entered: RLock.acquire succeeds when the lock is
\* free
Acquire(t) ==
    /\ at[t].pos \in LockedBlocks
    /\ lockOwner = "free"
    /\ lockOwner' = t
    /\ UNCHANGED <<at, written, cachedUrls, negUrls>>
    /\ UNCHANGED <<filterVars, cacheVars, loaderVars, upsertVars>>

WithExit_StillHeld(t) == t

\* the owner of the lock once thread t has left its with block, by the end
\* of the block, a return or a raise
WithExit(t) == "free"

\* ensure_file has the path: it returns it, or get_dataset goes on to
\* submit the open to _open_pool (lines 163-172)
HasPath(t, whole) ==
    IF at[t].op = "get_dataset"
    THEN [at EXCEPT ![t].pos = "open_queued", ![t].attempt = 0]
    ELSE [at EXCEPT ![t].pos = "returned", ![t].attempt = 0,
                    ![t].result = IF whole THEN "path" ELSE "path_of_partial"]

\* get_dataset, lines 144-160, under the lock
LookupBlock(t, expired) ==
    /\ at[t].pos = "lookup"
    /\ lockOwner = t
    /\ LET u == at[t].url
       IN  IF u \in negUrls
           THEN /\ at' = [at EXCEPT ![t].pos = "returned", ![t].result = "previously_failed"]
                /\ UNCHANGED cachedUrls
           ELSE IF u \in cachedUrls /\ ~expired
           THEN /\ at' = [at EXCEPT ![t].pos = "returned", ![t].result = "hit"]
                /\ UNCHANGED cachedUrls
           ELSE /\ cachedUrls' = cachedUrls \ {u}
                /\ at' = Goto(t, "disk_check")
    /\ lockOwner' = WithExit(t)
    /\ UNCHANGED <<written, negUrls>>
    /\ UNCHANGED <<filterVars, cacheVars, loaderVars, upsertVars>>

\* ensure_file, lines 93-97, without the lock: the staged file is there
\* and has a size above zero
DiskCheck(t) ==
    /\ at[t].pos = "disk_check"
    /\ LET u == at[t].url
       IN  at' = IF written[u] \in {"partial", "complete"}
                 THEN HasPath(t, written[u] = "complete")
                 ELSE Goto(t, "neg_check")
    /\ UNCHANGED <<lockOwner, written, cachedUrls, negUrls>>
    /\ UNCHANGED <<filterVars, cacheVars, loaderVars, upsertVars>>

\* ensure_file, lines 100-103, under the lock
NegCheckBlock(t) ==
    /\ at[t].pos = "neg_check"
    /\ lockOwner = t
    /\ at' = IF at[t].url \in negUrls
             THEN [at EXCEPT ![t].pos = "returned", ![t].result = "previously_failed"]
             ELSE Goto(t, "get")
    /\ lockOwner' = WithExit(t)
    /\ UNCHANGED <<written, cachedUrls, negUrls>>
    /\ UNCHANGED <<filterVars, cacheVars, loaderVars, upsertVars>>

\* self._session.get(url) in the calling thread answers (line 108); on 200
\* open(filename, "wb") creates the file, or empties the one that is there
GetAnswers(t, answer) ==
    /\ at[t].pos = "get"
    /\ CASE answer = "ok" ->
              /\ written' = [written EXCEPT ![at[t].url] = "empty"]
              /\ at' = Goto(t, "write")
         [] answer = "permanent" ->
              /\ at' = Goto(t, "neg_write")
              /\ UNCHANGED written
         [] OTHER ->
              /\ at' = Goto(t, "sleep")
              /\ UNCHANGED written
    /\ UNCHANGED <<lockOwner, cachedUrls, negUrls>>
    /\ UNCHANGED <<filterVars, cacheVars, loaderVars, upsertVars>>

\* fh.write(resp.content), lines 120-122: the bytes reach the file in one
\* piece or in several; after the last one the path is returned
WriteFile(t, all) ==
    /\ at[t].pos = "write"
    /\ LET u == at[t].url
       IN  IF all
           THEN /\ written' = [written EXCEPT ![u] = "complete"]
                /\ at' = HasPath(t, TRUE)
           ELSE /\ written[u] = "empty"
                /\ written' = [written EXCEPT ![u] = "partial"]
                /\ UNCHANGED at
    /\ UNCHANGED <<lockOwner, cachedUrls, negUrls>>
    /\ UNCHANGED <<filterVars, cacheVars, loaderVars, upsertVars>>

\* lines 112-114, under the lock: the negative entry of a 404/403; the
\* raise that follows is caught at line 123
NegWriteBlock(t) ==
    /\ at[t].pos = "neg_write"
    /\ lockOwner = t
    /\ negUrls' = negUrls \cup {at[t].url}
    /\ at' = Goto(t, "sleep")
    /\ lockOwner' = WithExit(t)
    /\ UNCHANGED <<written, cachedUrls>>
    /\ UNCHANGED <<filterVars, cacheVars, loaderVars, upsertVars>>

\* time.sleep(0.5 * (attempt + 1)) ends: the next pass of the loop over
\* range(retry_downloads + 1), or the end of the loop
SleepEnds(t) ==
    /\ at[t].pos = "sleep"
    /\ at' = [at EXCEPT ![t].attempt = at[t].attempt + 1,
                        ![t].pos = IF AfterFailedAttempt(at[t].attempt) = "download"
                                   THEN "get" ELSE "neg_final"]
    /\ UNCHANGED <<lockOwner, written, cachedUrls, negUrls>>
    /\ UNCHANGED <<filterVars, cacheVars, loaderVars, upsertVars>>

\* lines 129-131, under the lock: the negative entry, then raise
NegFinalBlock(t) ==
    /\ at[t].pos = "neg_final"
    /\ lockOwner = t
    /\ negUrls' = negUrls \cup {at[t].url}
    /\ at' = [at EXCEPT ![t].pos = "returned", ![t].attempt = 0,
                        ![t].result = "download_failed"]
    /\ lockOwner' = WithExit(t)
    /\ UNCHANGED <<written, cachedUrls>>
    /\ UNCHANGED <<filterVars, cacheVars, loaderVars, upsertVars>>

\* the threads whose _open_xr a worker of _open_pool is running
Opening == {t \in CallerThreads : at[t].pos = "opening"}

\* a worker of _open_pool takes the task submitted at line 172
StartOpen(t) ==
    /\ at[t].pos = "open_queued"
    /\ Cardinality(Opening) < OpenWorkers
    /\ at' = Goto(t, "opening")
    /\ UNCHANGED <<lockOwner, written, cachedUrls, negUrls>>
    /\ UNCHANGED <<filterVars, cacheVars, loaderVars, upsertVars>>

\* future.result returns the dataset or raises (lines 174-185)
OpenEnds(t, ok) ==
    /\ at[t].pos = "opening"
    /\ at' = IF ok THEN Goto(t, "insert")
             ELSE [at EXCEPT ![t].pos = "returned", ![t].result = "open_failed"]
    /\ UNCHANGED <<lockOwner, written, cachedUrls, negUrls>>
    /\ UNCHANGED <<filterVars, cacheVars, loaderVars, upsertVars>>

\* get_dataset, lines 187-196, under the lock
InsertBlock(t) ==
    /\ at[t].pos = "insert"
    /\ lockOwner = t
    /\ cachedUrls' = cachedUrls \cup {at[t].url}
    /\ at' = [at EXCEPT ![t].pos = "returned", ![t].result = "opened"]
    /\ lockOwner' = WithExit(t)
    /\ UNCHANGED <<written, negUrls>>
    /\ UNCHANGED <<filterVars, cacheVars, loaderVars, upsertVars>>

\* the caller has its result or its exception
Leave(t) ==
    /\ at[t].pos = "returned"
    /\ at' = [at EXCEPT ![t] = NoPosition]
    /\ UNCHANGED <<lockOwner, written, cachedUrls, negUrls>>
    /\ UNCHANGED <<filterVars, cacheVars, loaderVars, upsertVars>>

ThreadsNext ==
    \/ \E t \in CallerThreads, op \in {"get_dataset", "ensure_file"}, u \in Resources :
          Enter(t, op, u)
    \/ \E t \in CallerThreads : Acquire(t)
    \/ \E t \in CallerThreads, expired \in BOOLEAN : LookupBlock(t, expired)
    \/ \E t \in CallerThreads : DiskCheck(t)
    \/ \E t \in CallerThreads : NegCheckBlock(t)
    \/ \E t \in CallerThreads, a \in Answers : GetAnswers(t, a)
    \/ \E t \in CallerThreads, all \in BOOLEAN : WriteFile(t, all)
    \/ \E t \in CallerThreads : NegWriteBlock(t)
    \/ \E t \in CallerThreads : SleepEnds(t)
    \/ \E t \in CallerThreads : NegFinalBlock(t)
    \/ \E t \in CallerThreads : StartOpen(t)
    \/ \E t \in CallerThreads, ok \in BOOLEAN : OpenEnds(t, ok)
    \/ \E t \in CallerThreads : InsertBlock(t)
    \/ \E t \in CallerThreads : Leave(t)

SpecThreads == ThreadsInit /\ [][ThreadsNext]_vars

C24_WitnessOpen ==
    /\ at["t1"].pos = "lookup" /\ lockOwner = "t1"
    /\ at["t1"].url = "X" /\ "X" \in cachedUrls /\ "X" \notin negUrls
    /\ at["t2"].pos = "opening" /\ at["t2"].url = "Y"


\* the threads that are in session.get
Downloading == {t \in CallerThreads : at[t].pos = "get"}

\* C25: at most open_workers opens and at most download_workers downloads
\* are in progress at any time
C25_WorkerLimits ==
    /\ Cardinality(Opening) <= OpenWorkers
    /\ Cardinality(Downloading) <= DownloadWorkers

\* the half of C25 that holds: the opens run in _open_pool, one task per
\* worker, while further callers wait in its queue
C25_OpensWithinLimit ==
    Cardinality(Opening) <= OpenWorkers

\* one open runs and the other thread waits in the queue of _open_pool
C25_OpenQueued ==
    /\ at["t1"].pos = "opening"
    /\ at["t2"].pos = "open_queued"


\* thread t leaves the lookup of get_dataset with the cached handle
ReturnsCached(t) ==
    pc[t] = "lookup" /\ pc'[t] = "done" /\ call'[t].ret = "hit"

\* thread t runs the lookup of get_dataset on an entry older than
\* ttl_seconds at the time the call read the clock
ExpiredRead(t) ==
    /\ pc[t] = "lookup" /\ pc'[t] # "lookup"
    /\ call[t].url \in Keys(cache)
    /\ call[t].now - EntryOf(cache, call[t].url).created > TtlSeconds

\* C26: get_dataset returns a cached handle only when the entry is at most
\* ttl_seconds old; the read of an older entry removes the entry, takes its
\* size off the counter and goes on to stage and open the resource
C26_ExpiredEntryIsAMiss ==
    [][\A t \in Threads :
         /\ ReturnsCached(t) =>
               call[t].now - EntryOf(cache, call[t].url).created <= TtlSeconds
         /\ ExpiredRead(t) =>
               /\ call[t].url \notin Keys(cache')
               /\ cacheSize' = cacheSize - EntryOf(cache, call[t].url).size
               /\ pc'[t] = "open"]_vars

\* the half of C26 that holds: no handle older than ttl_seconds is
\* returned, and without a fresh negative entry the expired entry is
\* evicted and the resource opened again
C26_WithoutNegativeEntry ==
    [][\A t \in Threads :
         /\ ReturnsCached(t) =>
               call[t].now - EntryOf(cache, call[t].url).created <= TtlSeconds
         /\ (ExpiredRead(t) /\ ~NegActive(call[t].url, call[t].now)) =>
               /\ call[t].url \notin Keys(cache')
               /\ cacheSize' = cacheSize - EntryOf(cache, call[t].url).size
               /\ pc'[t] = "open"]_vars


\* C27: _cache_size, which status() reports as cache_size_bytes, is the
\* sum of the sizes of the entries in the cache
C27_SizeCounterIsSum ==
    cacheSize = SumSizes(cache)


\* url u has an entry in the cache that is at most ttl_seconds old at time now
Live(u, now) ==
    u \in Keys(cache) /\ now - EntryOf(cache, u).created <= TtlSeconds

\* C28: a url with a fresh negative entry has neither a staged file nor a
\* live cache entry, and get_dataset does not raise 'previously failed'
\* for a url whose handle is in the cache and live
C28_NegativeExcludesStaged ==
    /\ [](\A u \in Urls :
            NegActive(u, clock) => u \notin disk /\ ~Live(u, clock))
    /\ [][\A t \in Threads :
            (pc[t] = "lookup" /\ pc'[t] = "done"
                /\ call'[t].ret = "previously_failed")
            => ~Live(call[t].url, call[t].now)]_vars


\* the units that hold a dataset from CACHE.get_dataset and have a read of
\* it ahead
Reading == {f \in DOMAIN units : units[f] \in {"arrays", "measures"}}

\* C29: the dataset a unit got from get_dataset and is still reading has
\* not been closed by the cache
C29_HandleInUseStaysOpen ==
    \A f \in Reading : ~Closed(f)


\* thread t leaves ensure_file through the check of lines 96-97
ReturnsStaged(t) ==
    at[t].pos = "disk_check" /\ at'[t].pos \in {"returned", "open_queued"}

\* C30: the file whose path ensure_file returns through the check for a
\* staged file has been written completely
C30_ReturnsOnlyWholeFiles ==
    [][\A t \in CallerThreads :
         ReturnsStaged(t) => written[at[t].url] = "complete"]_vars

=============================================================================
